---- MODULE Spec2Model ----
(***************************************************************************)
(* Harmony engine of sound-of-right-now: the progression player            *)
(* (createProgressionPlayer) as a state machine, and the Markov walk of    *)
(* generateProgression as a second state machine over the shipped tables.  *)
(***************************************************************************)
EXTENDS Integers, Sequences, FiniteSets, TLC

VARIABLES
    currentProgression,  \* player: progression being played, NoProg when none
    nextProgression,     \* player: queued progression, NoProg when none
    chordIndex,          \* player: cursor into currentProgression.chords
    chordLoop,           \* player: the Tone.Loop held by the player (NoLoop = null)
    undisposed,          \* number of Tone.Loop objects created and not yet disposed
    hasCycleEnd,         \* whether callbacks.onCycleEnd was given at construction
    lastOp,              \* history: the operation that produced this state
    pre,                 \* history: player fields before that operation
    emitted,             \* history: onChordChange calls made by that operation
    supplierCalls,       \* history: onCycleEnd calls made by that operation
    sincePause,          \* history: pause() -> resume() -> advance tracking
    pauseTrack,          \* history: what was called since the last pause()
    disposed,            \* history: whether dispose() has been called
    dropped,             \* history: the progression that was queued when
                         \*   setProgression(p, true) was last called
    weatherCategory,     \* generator: the category argument
    walkPc,              \* generator: position inside generateProgression
    walkLength,          \* generator: the drawn base length
    degrees,             \* generator: tail of the degrees array (last DegreeWindow)
    degreeCount,         \* generator: degrees.length
    pickWeights,         \* weightedPick: the weights argument
    pickExclude,         \* weightedPick: the exclude argument (0 = null)
    pickResult,          \* weightedPick: the returned key (NoPick before the call)
    pressureNorm,        \* getHarmonicRhythm: numerator of pressureNorm
    harmonicRhythm,      \* getHarmonicRhythm: measures returned (0 before the call)
    scanPos,             \* generator: index of the chord the injection loop is at
    roll,                \* generator: the Math.random() of the injection test (NoRoll = none)
    outline,             \* generator: the injected list, each chord reduced to
                         \*   degree / isSecondaryDominant / resolvesDegree
    root,                \* generator: the root argument
    mode,                \* generator: the mode argument
    chords,              \* generator: the diatonic chord objects of the walk
    finalChords,         \* generator: the chord objects returned
    invChord,            \* selectInversion: the chord argument
    previousBassNote,    \* selectInversion: the previousBassNote argument
    invResult,           \* selectInversion: the returned chord (NoChord before the call)
    lastPadVoicing,      \* engine: the pad voicing last returned by voiceLead
    targetRootPosition,  \* engine: chord.notes of the chord being voiced
    voicedNotes,         \* engine: what voiceLead returned for it
    voicePc              \* engine: position inside onChordChange

playerVars == <<currentProgression, nextProgression, chordIndex, chordLoop,
                undisposed, hasCycleEnd, lastOp, pre, emitted, supplierCalls,
                sincePause, pauseTrack, disposed, dropped>>
walkVars == <<weatherCategory, walkPc, walkLength, degrees, degreeCount>>
pickVars == <<pickWeights, pickExclude, pickResult>>
rhythmVars == <<pressureNorm, harmonicRhythm>>
outlineVars == <<scanPos, roll, outline>>
chordVars == <<root, mode, chords, finalChords>>
invVars == <<invChord, previousBassNote, invResult>>
voiceVars == <<lastPadVoicing, targetRootPosition, voicedNotes, voicePc>>
otherVars == <<pickVars, rhythmVars, outlineVars, chordVars, invVars, voiceVars>>
vars == <<playerVars, walkVars, otherVars>>

----------------------------------------------------------------------------
(* Bounds *)

\* Number of distinct progression objects alive at once in the player model.
MaxProgs == 3
\* Longest progression handed to the player.
MaxChords == 3
\* Math.random() is drawn from {0/RandDen, ..., (RandDen-1)/RandDen}.
RandDen == 32
\* How many trailing entries of the degrees array the walk model keeps.
DegreeWindow == 2
\* Largest weight in the rows handed to weightedPick on its own.
MaxWeight == 1
\* pressureNorm is drawn from {0/PressureDen, ..., PressureDen/PressureDen}.
PressureDen == 16
\* The outline model cuts the Markov walk after this many degrees.
MaxBaseLen == 2

----------------------------------------------------------------------------
(* Progression objects given to the player *)

NoProg == 0
ProgIds == 1..MaxProgs

\* progression.chords.length
NumChords(p) == ((p - 1) % MaxChords) + 1

\* progression.harmonicRhythm, in measures ('<n>m')
HarmonicRhythm(p) == p + 1

\* chord.isSecondaryDominant of progression.chords[i]; never the last chord,
\* as the generator always places the target right after the insertion.
IsSecondaryDominant(p, i) == (p + i) % 2 = 0 /\ i + 1 < NumChords(p)

\* The chord object progression.chords[i] (identity = owner and position).
Chord(p, i) == [prog |-> p, pos |-> i]

\* One onChordChange(chord, index, total) call.
Event(p, i) == [chord |-> Chord(p, i), index |-> i, total |-> NumChords(p)]

Max(a, b) == IF a >= b THEN a ELSE b

\* Math.max(1, Math.round(parseInt(n) / 2)); Math.round rounds .5 upwards.
HalvedRhythm(n) == Max(1, (n + 1) \div 2)

\* Variant of NextInterval: baseRhythm is read from the progression that was
\* current before the callback ran.
NextIntervalStale(p, i) ==
    IF IsSecondaryDominant(p, i)
    THEN HalvedRhythm(HarmonicRhythm(currentProgression))
    ELSE HarmonicRhythm(currentProgression)

\* The value assigned to chordLoop.interval after firing chord i of p.
NextInterval(p, i) ==
    IF IsSecondaryDominant(p, i) THEN HalvedRhythm(HarmonicRhythm(p))
    ELSE HarmonicRhythm(p)

NoLoop == [active |-> FALSE, interval |-> 0, nextIn |-> 0]

\* new Tone.Loop(cb, h) followed by start('+' + h)
NewLoop(p) == [active |-> TRUE, interval |-> HarmonicRhythm(p),
               nextIn |-> HarmonicRhythm(p)]

Snapshot == [cur |-> currentProgression, nxt |-> nextProgression,
             idx |-> chordIndex, loop |-> chordLoop]

NoTrack == [phase |-> "none", cur |-> NoProg, nxt |-> NoProg, idx |-> 0]

Op(name, p, imm) == [op |-> name, p |-> p, immediate |-> imm]

\* No pause() yet, or resume() was called after the last one.
NoPause == [paused |-> FALSE, restarted |-> FALSE, loaded |-> FALSE]

\* pauseTrack after setProgression; took = the immediate branch was taken.
PauseTrackAfterSet(took) ==
    IF took /\ pauseTrack.paused THEN [pauseTrack EXCEPT !.loaded = TRUE]
    ELSE pauseTrack

\* pauseTrack after start().
PauseTrackAfterStart ==
    IF pauseTrack.paused THEN [pauseTrack EXCEPT !.restarted = TRUE]
    ELSE pauseTrack

\* dropped after the object p is handed to the player; took = setProgression
\* took its immediate branch.  An object handed in again is no longer the
\* discarded one.
DroppedAfter(p, took) ==
    IF took /\ nextProgression # NoProg THEN nextProgression
    ELSE IF dropped = p THEN NoProg
    ELSE dropped

----------------------------------------------------------------------------
(* Player operations *)

\* get position()
Position ==
    IF currentProgression = NoProg THEN [index |-> 0, total |-> 0]
    ELSE [index |-> chordIndex, total |-> NumChords(currentProgression)]

\* get currentChord(); Chord(NoProg, 0) stands for null
CurrentChord ==
    IF currentProgression = NoProg THEN Chord(NoProg, 0)
    ELSE Chord(currentProgression, chordIndex)

\* Variant of StartLoop: the current chord is fired on every restart.
StartLoopAlwaysFires(cur, idx, fire) ==
    /\ chordLoop' = IF cur = NoProg THEN NoLoop ELSE NewLoop(cur)
    /\ undisposed' = (IF chordLoop.active THEN undisposed - 1 ELSE undisposed)
                     + (IF cur = NoProg THEN 0 ELSE 1)
    /\ emitted' = IF cur # NoProg THEN <<Event(cur, idx)>> ELSE <<>>

\* Variant of StartLoop: the previous loop is not stopped and disposed.
StartLoopSkipsStop(cur, idx, fire) ==
    /\ chordLoop' = IF cur = NoProg THEN chordLoop ELSE NewLoop(cur)
    /\ undisposed' = undisposed + (IF cur = NoProg THEN 0 ELSE 1)
    /\ emitted' = IF cur # NoProg /\ fire THEN <<Event(cur, idx)>> ELSE <<>>

\* stopLoop() then the rest of startLoop({fireCurrentChord: fire}), run with
\* currentProgression = cur and chordIndex = idx already assigned.
StartLoop(cur, idx, fire) ==
    /\ chordLoop' = IF cur = NoProg THEN NoLoop ELSE NewLoop(cur)
    /\ undisposed' = (IF chordLoop.active THEN undisposed - 1 ELSE undisposed)
                     + (IF cur = NoProg THEN 0 ELSE 1)
    /\ emitted' = IF cur # NoProg /\ fire THEN <<Event(cur, idx)>> ELSE <<>>

\* Variant of StopLoop: the loop is stopped but never disposed.
StopLoopKeepsHandle ==
    /\ chordLoop' = NoLoop
    /\ undisposed' = undisposed

\* Variant of StopLoop: the loop is left running.
StopLoopLeavesRunning == UNCHANGED <<chordLoop, undisposed>>

\* stopLoop()
StopLoop ==
    /\ chordLoop' = NoLoop
    /\ undisposed' = IF chordLoop.active THEN undisposed - 1 ELSE undisposed

\* Variant of SetProgression: the cursor is not reset.
SetProgressionKeepsCursor(p, immediate) ==
    /\ p \in ProgIds \ {currentProgression, nextProgression}
    /\ IF immediate \/ currentProgression = NoProg
       THEN /\ currentProgression' = p
            /\ nextProgression' = NoProg
            /\ chordIndex' = chordIndex
            /\ StartLoop(p, chordIndex, TRUE)
       ELSE /\ nextProgression' = p
            /\ emitted' = <<>>
            /\ UNCHANGED <<currentProgression, chordIndex, chordLoop, undisposed>>
    /\ supplierCalls' = 0
    /\ lastOp' = Op("setProgression", p, immediate)
    /\ pre' = Snapshot
    /\ sincePause' = NoTrack
    /\ pauseTrack' = PauseTrackAfterSet(immediate \/ currentProgression = NoProg)
    /\ dropped' = DroppedAfter(p, immediate \/ currentProgression = NoProg)
    /\ UNCHANGED disposed
    /\ UNCHANGED <<hasCycleEnd, walkVars, otherVars>>

\* Variant of SetProgression: an immediate load leaves the queue as it is.
SetProgressionKeepsQueue(p, immediate) ==
    /\ p \in ProgIds \ {currentProgression, nextProgression}
    /\ IF immediate \/ currentProgression = NoProg
       THEN /\ currentProgression' = p
            /\ nextProgression' = nextProgression
            /\ chordIndex' = 0
            /\ StartLoop(p, 0, TRUE)
       ELSE /\ nextProgression' = p
            /\ emitted' = <<>>
            /\ UNCHANGED <<currentProgression, chordIndex, chordLoop, undisposed>>
    /\ supplierCalls' = 0
    /\ lastOp' = Op("setProgression", p, immediate)
    /\ pre' = Snapshot
    /\ sincePause' = NoTrack
    /\ pauseTrack' = PauseTrackAfterSet(immediate \/ currentProgression = NoProg)
    /\ dropped' = DroppedAfter(p, immediate \/ currentProgression = NoProg)
    /\ UNCHANGED <<disposed, hasCycleEnd, walkVars, otherVars>>

\* setProgression(progression, immediate); every progression handed to the
\* player is a fresh object (the engine generates one per call).
SetProgression(p, immediate) ==
    /\ p \in ProgIds \ {currentProgression, nextProgression}
    /\ IF immediate \/ currentProgression = NoProg
       THEN /\ currentProgression' = p
            /\ nextProgression' = NoProg
            /\ chordIndex' = 0
            /\ StartLoop(p, 0, TRUE)
       ELSE /\ nextProgression' = p
            /\ emitted' = <<>>
            /\ UNCHANGED <<currentProgression, chordIndex, chordLoop, undisposed>>
    /\ supplierCalls' = 0
    /\ lastOp' = Op("setProgression", p, immediate)
    /\ pre' = Snapshot
    /\ sincePause' = NoTrack
    /\ pauseTrack' = PauseTrackAfterSet(immediate \/ currentProgression = NoProg)
    /\ dropped' = DroppedAfter(p, immediate \/ currentProgression = NoProg)
    /\ UNCHANGED disposed
    /\ UNCHANGED <<hasCycleEnd, walkVars, otherVars>>

\* start()
Start ==
    /\ IF currentProgression # NoProg
       THEN StartLoop(currentProgression, chordIndex, FALSE)
       ELSE /\ emitted' = <<>>
            /\ UNCHANGED <<chordLoop, undisposed>>
    /\ supplierCalls' = 0
    /\ lastOp' = Op("start", NoProg, FALSE)
    /\ pre' = Snapshot
    /\ sincePause' = NoTrack
    /\ pauseTrack' = PauseTrackAfterStart
    /\ UNCHANGED <<disposed, dropped>>
    /\ UNCHANGED <<currentProgression, nextProgression, chordIndex,
                   hasCycleEnd, walkVars, otherVars>>

\* pause()
Pause ==
    /\ StopLoop
    /\ emitted' = <<>>
    /\ supplierCalls' = 0
    /\ lastOp' = Op("pause", NoProg, FALSE)
    /\ pre' = Snapshot
    /\ sincePause' = [phase |-> "paused", cur |-> currentProgression,
                      nxt |-> nextProgression, idx |-> chordIndex]
    /\ pauseTrack' = [paused |-> TRUE, restarted |-> FALSE, loaded |-> FALSE]
    /\ UNCHANGED <<disposed, dropped>>
    /\ UNCHANGED <<currentProgression, nextProgression, chordIndex,
                   hasCycleEnd, walkVars, otherVars>>

\* Variant of Resume: the loop is rebuilt without looking at currentProgression.
ResumeUnguarded ==
    /\ chordLoop' = NewLoop(currentProgression)
    /\ undisposed' = (IF chordLoop.active THEN undisposed - 1 ELSE undisposed) + 1
    /\ emitted' = <<>>
    /\ supplierCalls' = 0
    /\ lastOp' = Op("resume", NoProg, FALSE)
    /\ pre' = Snapshot
    /\ sincePause' = IF sincePause.phase = "paused"
                     THEN [sincePause EXCEPT !.phase = "resumed"]
                     ELSE NoTrack
    /\ pauseTrack' = NoPause
    /\ UNCHANGED <<disposed, dropped>>
    /\ UNCHANGED <<currentProgression, nextProgression, chordIndex,
                   hasCycleEnd, walkVars, otherVars>>

\* resume(): this.start()
Resume ==
    /\ IF currentProgression # NoProg
       THEN StartLoop(currentProgression, chordIndex, FALSE)
       ELSE /\ emitted' = <<>>
            /\ UNCHANGED <<chordLoop, undisposed>>
    /\ supplierCalls' = 0
    /\ lastOp' = Op("resume", NoProg, FALSE)
    /\ pre' = Snapshot
    /\ sincePause' = IF sincePause.phase = "paused"
                     THEN [sincePause EXCEPT !.phase = "resumed"]
                     ELSE NoTrack
    /\ pauseTrack' = NoPause
    /\ UNCHANGED <<disposed, dropped>>
    /\ UNCHANGED <<currentProgression, nextProgression, chordIndex,
                   hasCycleEnd, walkVars, otherVars>>

\* Variant of StopBody: the queued progression survives.
StopBodyKeepsQueue(name) ==
    /\ StopLoop
    /\ currentProgression' = NoProg
    /\ nextProgression' = nextProgression
    /\ chordIndex' = 0
    /\ emitted' = <<>>
    /\ supplierCalls' = 0
    /\ lastOp' = Op(name, NoProg, FALSE)
    /\ pre' = Snapshot
    /\ sincePause' = NoTrack
    /\ disposed' = (disposed \/ name = "dispose")
    /\ UNCHANGED <<pauseTrack, dropped>>
    /\ UNCHANGED <<hasCycleEnd, walkVars, otherVars>>

\* The body shared by stop() and dispose().
StopBody(name) ==
    /\ StopLoop
    /\ currentProgression' = NoProg
    /\ nextProgression' = NoProg
    /\ chordIndex' = 0
    /\ emitted' = <<>>
    /\ supplierCalls' = 0
    /\ lastOp' = Op(name, NoProg, FALSE)
    /\ pre' = Snapshot
    /\ sincePause' = NoTrack
    /\ disposed' = (disposed \/ name = "dispose")
    /\ UNCHANGED <<pauseTrack, dropped>>
    /\ UNCHANGED <<hasCycleEnd, walkVars, otherVars>>

\* stop()
Stop == StopBody("stop")

\* dispose(): this.stop()
Dispose == StopBody("dispose")

\* Variant of AdvanceIndex: the cursor moves by two while chords remain.
AdvanceIndexOffByOne(cur, idx) ==
    IF idx + 1 >= NumChords(cur) THEN 0
    ELSE IF idx + 2 >= NumChords(cur) THEN idx + 1 ELSE idx + 2

\* Variant of AdvanceIndex: the cursor is never reset.
AdvanceIndexNoReset(cur, idx) == idx + 1

\* Cursor after chordIndex++ and the end-of-progression reset.
AdvanceIndex(cur, idx) == IF idx + 1 >= NumChords(cur) THEN 0 ELSE idx + 1

\* Whether the callback invokes callbacks.onCycleEnd().
AsksSupplier(cur, nxt, idx) ==
    idx + 1 >= NumChords(cur) /\ nxt = NoProg /\ hasCycleEnd

\* Variant of AdvanceProgression: a queued progression is swapped in at
\* the very next advance, not at the cycle end.
AdvanceProgressionEager(cur, nxt, idx, fresh) ==
    IF nxt # NoProg THEN nxt
    ELSE IF idx + 1 >= NumChords(cur) /\ hasCycleEnd /\ fresh # NoProg THEN fresh
    ELSE cur

\* Variant of AdvanceProgression: the supplier's result is taken unchecked.
AdvanceProgressionUnchecked(cur, nxt, idx, fresh) ==
    IF idx + 1 >= NumChords(cur)
    THEN IF nxt # NoProg THEN nxt
         ELSE IF hasCycleEnd THEN fresh
         ELSE cur
    ELSE cur

\* Variant of AdvanceProgression: the queue is not looked at.
AdvanceProgressionIgnoresQueue(cur, nxt, idx, fresh) ==
    IF idx + 1 >= NumChords(cur) /\ hasCycleEnd /\ fresh # NoProg THEN fresh
    ELSE cur

\* currentProgression after the end-of-progression branch; fresh is what
\* onCycleEnd() returned (NoProg = falsy).
AdvanceProgression(cur, nxt, idx, fresh) ==
    IF idx + 1 >= NumChords(cur)
    THEN IF nxt # NoProg THEN nxt
         ELSE IF hasCycleEnd /\ fresh # NoProg THEN fresh
         ELSE cur
    ELSE cur

\* Variant of AdvanceQueue: the queue is not cleared by the swap.
AdvanceQueueKeeps(cur, nxt, idx) == nxt

\* nextProgression after the callback.
AdvanceQueue(cur, nxt, idx) ==
    IF idx + 1 >= NumChords(cur) /\ nxt # NoProg THEN NoProg ELSE nxt

\* The Tone.Loop callback: one advance.  fresh is the value onCycleEnd()
\* returns when it is invoked, NoProg otherwise.
Tick(fresh) ==
    /\ chordLoop.active
    /\ fresh \in {NoProg} \cup (ProgIds \ {currentProgression, nextProgression})
    /\ ~AsksSupplier(currentProgression, nextProgression, chordIndex)
          => fresh = NoProg
    /\ LET cur1 == AdvanceProgression(currentProgression, nextProgression,
                                      chordIndex, fresh)
           idx1 == AdvanceIndex(currentProgression, chordIndex)
       IN /\ currentProgression' = cur1
          /\ nextProgression' = AdvanceQueue(currentProgression,
                                             nextProgression, chordIndex)
          /\ chordIndex' = idx1
          /\ emitted' = <<Event(cur1, idx1)>>
          /\ chordLoop' = [active |-> TRUE,
                           interval |-> NextInterval(cur1, idx1),
                           nextIn |-> NextInterval(cur1, idx1)]
    /\ supplierCalls' =
          IF AsksSupplier(currentProgression, nextProgression, chordIndex)
          THEN 1 ELSE 0
    /\ lastOp' = Op("tick", fresh, FALSE)
    /\ pre' = Snapshot
    /\ sincePause' = IF sincePause.phase = "resumed"
                     THEN [sincePause EXCEPT !.phase = "advanced"]
                     ELSE NoTrack
    /\ dropped' = DroppedAfter(fresh, FALSE)
    /\ UNCHANGED <<pauseTrack, disposed>>
    /\ UNCHANGED <<undisposed, hasCycleEnd, walkVars, otherVars>>

----------------------------------------------------------------------------
(* Initial states *)

PlayerIdle ==
    /\ currentProgression = NoProg
    /\ nextProgression = NoProg
    /\ chordIndex = 0
    /\ chordLoop = NoLoop
    /\ undisposed = 0
    /\ lastOp = Op("create", NoProg, FALSE)
    /\ pre = [cur |-> NoProg, nxt |-> NoProg, idx |-> 0, loop |-> NoLoop]
    /\ emitted = <<>>
    /\ supplierCalls = 0
    /\ sincePause = NoTrack
    /\ pauseTrack = NoPause
    /\ disposed = FALSE
    /\ dropped = NoProg

WalkIdle ==
    /\ weatherCategory = "clear"
    /\ walkPc = "idle"
    /\ walkLength = 0
    /\ degrees = <<>>
    /\ degreeCount = 0

NoPick == 0

PickIdle ==
    /\ pickWeights = <<>>
    /\ pickExclude = 0
    /\ pickResult = NoPick

RhythmIdle ==
    /\ pressureNorm = 0
    /\ harmonicRhythm = 0

NoRoll == -1

OutlineIdle ==
    /\ scanPos = 0
    /\ roll = NoRoll
    /\ outline = <<>>

ChordsIdle ==
    /\ root = "C"
    /\ mode = "ionian"
    /\ chords = <<>>
    /\ finalChords = <<>>

\* null where a note name is expected
NoNote == [name |-> "", octave |-> 0]

\* no chord object
NoChord == [degree |-> 0]

InversionIdle ==
    /\ invChord = NoChord
    /\ previousBassNote = NoNote
    /\ invResult = NoChord

\* let lastPadVoicing = null; the empty tuple stands for null and for []
VoiceIdle ==
    /\ lastPadVoicing = <<>>
    /\ targetRootPosition = <<>>
    /\ voicedNotes = <<>>
    /\ voicePc = "idle"

OtherIdle ==
    /\ PickIdle
    /\ RhythmIdle
    /\ OutlineIdle
    /\ ChordsIdle
    /\ InversionIdle
    /\ VoiceIdle

\* createProgressionPlayer(callbacks)
Init ==
    /\ PlayerIdle
    /\ hasCycleEnd \in BOOLEAN
    /\ WalkIdle
    /\ OtherIdle

Next ==
    \/ \E p \in ProgIds, immediate \in BOOLEAN : SetProgression(p, immediate)
    \/ Start
    \/ Pause
    \/ Resume
    \/ Stop
    \/ Dispose
    \/ \E fresh \in {NoProg} \cup ProgIds : Tick(fresh)

Spec == Init /\ [][Next]_vars

\* The player while the Transport runs: a started Tone.Loop keeps firing.
SpecAdvancing ==
    Init /\ [][Next]_vars /\ WF_vars(\E fresh \in {NoProg} \cup ProgIds : Tick(fresh))

----------------------------------------------------------------------------
(* generateProgression: mood tables and the Markov walk *)

Categories == {"clear", "cloudy", "fog", "drizzle", "rain", "snow", "storm",
               "hail"}

\* Variant of Mood: the default is 'gentle'.
MoodDefaultGentle(category) ==
    CASE category = "clear"   -> "calm"
      [] category = "fog"     -> "suspended"
      [] category = "drizzle" -> "melancholy"
      [] category = "snow"    -> "sparse"
      [] category = "storm"   -> "tense"
      [] OTHER                -> "gentle"

\* CATEGORY_TO_MOOD[weatherCategory] || 'calm'  ("hail" is not in the table)
Mood(category) ==
    CASE category = "clear"   -> "calm"
      [] category = "cloudy"  -> "gentle"
      [] category = "fog"     -> "suspended"
      [] category = "drizzle" -> "melancholy"
      [] category = "rain"    -> "gentle"
      [] category = "snow"    -> "sparse"
      [] category = "storm"   -> "tense"
      [] OTHER                -> "calm"

\* TRANSITION_WEIGHTS[mood]: row d, column t = weight of d -> t
TransitionWeights(mood) ==
    CASE mood = "calm" ->
           << <<0, 1, 2, 8, 6, 4, 1>>, <<3, 0, 1, 2, 5, 1, 1>>,
              <<4, 1, 0, 5, 1, 3, 1>>, <<8, 2, 1, 0, 4, 3, 1>>,
              <<8, 1, 1, 4, 0, 3, 1>>, <<4, 2, 1, 6, 3, 0, 1>>,
              <<5, 1, 2, 3, 1, 2, 0>> >>
      [] mood = "gentle" ->
           << <<0, 3, 3, 4, 2, 5, 3>>, <<3, 0, 1, 3, 6, 1, 1>>,
              <<2, 1, 0, 3, 1, 5, 2>>, <<5, 2, 1, 0, 4, 2, 1>>,
              <<5, 1, 1, 2, 0, 4, 2>>, <<3, 2, 1, 5, 3, 0, 2>>,
              <<3, 1, 2, 3, 1, 4, 0>> >>
      [] mood = "melancholy" ->
           << <<0, 1, 3, 4, 1, 5, 5>>, <<2, 0, 2, 1, 3, 2, 3>>,
              <<2, 1, 0, 4, 1, 4, 3>>, <<2, 1, 4, 0, 1, 4, 5>>,
              <<3, 1, 2, 2, 0, 3, 4>>, <<2, 1, 3, 2, 1, 0, 6>>,
              <<4, 1, 4, 2, 1, 4, 0>> >>
      [] mood = "tense" ->
           << <<0, 4, 3, 4, 4, 3, 4>>, <<3, 0, 3, 2, 5, 3, 3>>,
              <<2, 3, 0, 3, 2, 5, 3>>, <<4, 3, 2, 0, 4, 2, 4>>,
              <<4, 2, 3, 3, 0, 4, 3>>, <<2, 4, 3, 4, 3, 0, 3>>,
              <<4, 2, 4, 3, 3, 3, 0>> >>
      [] mood = "suspended" ->
           << <<0, 2, 0, 7, 6, 1, 0>>, <<8, 0, 0, 2, 3, 0, 0>>,
              <<6, 1, 0, 3, 2, 1, 0>>, <<8, 1, 0, 0, 4, 1, 0>>,
              <<9, 1, 0, 3, 0, 1, 0>>, <<6, 1, 0, 4, 3, 0, 0>>,
              <<7, 0, 1, 3, 2, 0, 0>> >>
      [] OTHER ->  \* sparse
           << <<0, 1, 3, 5, 5, 4, 1>>, <<5, 0, 1, 2, 4, 1, 1>>,
              <<6, 1, 0, 3, 2, 2, 1>>, <<7, 1, 1, 0, 3, 2, 1>>,
              <<7, 1, 1, 3, 0, 2, 1>>, <<5, 1, 2, 4, 2, 0, 1>>,
              <<5, 1, 2, 3, 2, 2, 0>> >>

\* STARTING_WEIGHTS[mood]
StartingWeights(mood) ==
    CASE mood = "calm"       -> <<10, 0, 1, 2, 1, 1, 0>>
      [] mood = "gentle"     -> <<7, 1, 1, 3, 1, 3, 1>>
      [] mood = "melancholy" -> <<5, 0, 1, 2, 0, 4, 2>>
      [] mood = "tense"      -> <<4, 3, 1, 2, 2, 1, 1>>
      [] mood = "suspended"  -> <<10, 0, 0, 1, 1, 0, 0>>
      [] OTHER               -> <<8, 0, 1, 3, 1, 1, 0>>

\* PROGRESSION_LENGTHS[mood]
ProgressionLengths(mood) ==
    CASE mood = "tense"                   -> [min |-> 6, max |-> 10]
      [] mood \in {"suspended", "sparse"} -> [min |-> 3, max |-> 5]
      [] OTHER                            -> [min |-> 4, max |-> 6]

AllDegrees == <<1, 2, 3, 4, 5, 6, 7>>

\* Variant of PickEntries: the `continue` is gone, every key is a candidate.
PickEntriesUnfiltered(weights, exclude) == AllDegrees

\* weightedPick: the entries kept by the filtering loop, in key order;
\* exclude = 0 stands for null.
PickEntries(weights, exclude) ==
    LET Keep(d) == ~(d = exclude \/ weights[d] <= 0)
    IN SelectSeq(AllDegrees, Keep)

RECURSIVE SumWeights(_, _, _)
\* total: the sum of the weights of entries[k..]
SumWeights(entries, weights, k) ==
    IF k > Len(entries) THEN 0
    ELSE weights[entries[k]] + SumWeights(entries, weights, k + 1)

RECURSIVE PickByRoll(_, _, _, _)
\* weightedPick: the roll loop from entry k on.  roll is kept as the
\* numerator r of r / RandDen; falls through to the last entry.
PickByRoll(entries, weights, r, k) ==
    IF k > Len(entries) THEN entries[Len(entries)]
    ELSE LET r1 == r - weights[entries[k]] * RandDen
         IN IF r1 <= 0 THEN entries[k]
            ELSE PickByRoll(entries, weights, r1, k + 1)

\* Variant of WeightedPick: the fallback list is not filtered by exclude.
WeightedPickFallbackAny(weights, exclude, u) ==
    LET entries == PickEntries(weights, exclude)
    IN IF Len(entries) = 0
       THEN AllDegrees[((u * Len(AllDegrees)) \div RandDen) + 1]
       ELSE PickByRoll(entries, weights,
                       u * SumWeights(entries, weights, 1), 1)

\* weightedPick(weights, exclude) when Math.random() returns u / RandDen.
WeightedPick(weights, exclude, u) ==
    LET entries == PickEntries(weights, exclude)
    IN IF Len(entries) = 0
       THEN LET Other(d) == d # exclude
                fallback == SelectSeq(AllDegrees, Other)
            IN fallback[((u * Len(fallback)) \div RandDen) + 1]
       ELSE PickByRoll(entries, weights,
                       u * SumWeights(entries, weights, 1), 1)

Draws == 0..(RandDen - 1)

\* degrees.push(d), keeping the last DegreeWindow entries
PushDegree(ds, d) ==
    LET all == Append(ds, d)
    IN IF Len(all) > DegreeWindow THEN Tail(all) ELSE all

\* Variant of DrawLength: the span is one too wide.
DrawLengthTooWide(u) ==
    /\ walkPc = "length"
    /\ LET lengths == ProgressionLengths(Mood(weatherCategory))
       IN walkLength' = lengths.min
                        + ((u * (lengths.max - lengths.min + 2)) \div RandDen)
    /\ walkPc' = "start"
    /\ UNCHANGED <<weatherCategory, degrees, degreeCount, playerVars, otherVars>>

\* lengths.min + Math.floor(Math.random() * (lengths.max - lengths.min + 1))
DrawLength(u) ==
    /\ walkPc = "length"
    /\ LET lengths == ProgressionLengths(Mood(weatherCategory))
       IN walkLength' = lengths.min
                        + ((u * (lengths.max - lengths.min + 1)) \div RandDen)
    /\ walkPc' = "start"
    /\ UNCHANGED <<weatherCategory, degrees, degreeCount, playerVars, otherVars>>

\* let currentDegree = weightedPick(startWeights); degrees.push(currentDegree)
PickStart(u) ==
    /\ walkPc = "start"
    /\ degrees' = <<WeightedPick(StartingWeights(Mood(weatherCategory)), 0, u)>>
    /\ degreeCount' = 1
    /\ walkPc' = "walk"
    /\ UNCHANGED <<weatherCategory, walkLength, playerVars, otherVars>>

\* one iteration of: for (let i = 1; i < length; i++) { ... }
WalkStep(u) ==
    /\ walkPc = "walk"
    /\ degreeCount < walkLength
    /\ LET currentDegree == degrees[Len(degrees)]
           weights == TransitionWeights(Mood(weatherCategory))[currentDegree]
       IN degrees' = PushDegree(degrees,
                                WeightedPick(weights, currentDegree, u))
    /\ degreeCount' = degreeCount + 1
    /\ UNCHANGED <<weatherCategory, walkLength, walkPc, playerVars, otherVars>>

\* the loop exits: the degree sequence is complete
WalkDone ==
    /\ walkPc = "walk"
    /\ degreeCount >= walkLength
    /\ walkPc' = "done"
    /\ UNCHANGED <<weatherCategory, walkLength, degrees, degreeCount,
                   playerVars, otherVars>>

\* generateProgression(root, mode, weatherCategory, pressureNorm) is entered
InitWalk ==
    /\ PlayerIdle
    /\ hasCycleEnd = TRUE
    /\ weatherCategory \in Categories
    /\ walkPc = "length"
    /\ walkLength = 0
    /\ degrees = <<>>
    /\ degreeCount = 0
    /\ OtherIdle

NextWalk ==
    \/ \E u \in Draws : DrawLength(u)
    \/ \E u \in Draws : PickStart(u)
    \/ \E u \in Draws : WalkStep(u)
    \/ WalkDone

SpecWalk == InitWalk /\ [][NextWalk]_vars

----------------------------------------------------------------------------
(* generateProgression end to end, chords in outline *)

\* SEC_DOM_PROBABILITY[mood] ?? 0, in percent
SecDomProbability(mood) ==
    CASE mood = "tense"      -> 30
      [] mood = "melancholy" -> 20
      [] mood = "gentle"     -> 12
      [] mood = "calm"       -> 8
      [] OTHER               -> 0

\* Variant of SecDomTargets: the tonic is a target too.
SecDomTargetsWithTonic == {1, 2, 4, 5, 6}

\* SEC_DOM_TARGETS
SecDomTargets == {2, 4, 5, 6}

Min(a, b) == IF a <= b THEN a ELSE b

\* buildChord(root, mode, degree, qualities), outline fields only; a
\* diatonic chord has neither isSecondaryDominant nor resolvesDegree.
ChordOutline(degree) ==
    [degree |-> degree, isSecondaryDominant |-> FALSE, resolvesDegree |-> 0]

\* buildSecondaryDominant(targetChord, originalScaleTones), outline fields
\* only; degree 0 stands for null.
SecondaryDominantOutline(targetChord) ==
    [degree |-> 0, isSecondaryDominant |-> TRUE,
     resolvesDegree |-> targetChord.degree]

\* chords[scanPos] of const chords = degrees.map(buildChord)
ScannedChord == ChordOutline(degrees[scanPos])

\* one iteration of the walk loop, the walk being cut at MaxBaseLen degrees
WalkStepCut(u) ==
    /\ walkPc = "walk"
    /\ degreeCount < Min(walkLength, MaxBaseLen)
    /\ LET currentDegree == degrees[Len(degrees)]
           weights == TransitionWeights(Mood(weatherCategory))[currentDegree]
       IN degrees' = Append(degrees, WeightedPick(weights, currentDegree, u))
    /\ degreeCount' = degreeCount + 1
    /\ UNCHANGED <<weatherCategory, walkLength, walkPc, playerVars, pickVars,
                   rhythmVars, outlineVars, chordVars, invVars, voiceVars>>

\* chords = degrees.map(...); secDomProb = ...; finalChords = chords;
\* if (secDomProb > 0) { injected = [] ... } -- without injection the
\* chords go to the inversion pass as they are
BuildChords ==
    /\ walkPc = "walk"
    /\ degreeCount >= Min(walkLength, MaxBaseLen)
    /\ IF SecDomProbability(Mood(weatherCategory)) > 0
       THEN /\ walkPc' = "inject"
            /\ scanPos' = 1
            /\ outline' = <<>>
       ELSE /\ walkPc' = "invert"
            /\ scanPos' = scanPos
            /\ outline' = [k \in 1..Len(degrees) |-> ChordOutline(degrees[k])]
    /\ UNCHANGED <<weatherCategory, walkLength, degrees, degreeCount, roll,
                   playerVars, pickVars, rhythmVars,
                   chordVars, invVars, voiceVars>>

\* SEC_DOM_TARGETS.has(chord.degree) && Math.random() ...: the draw is made
\* for target degrees only
InjectDraw(u) ==
    /\ walkPc = "inject"
    /\ scanPos <= Len(degrees)
    /\ ScannedChord.degree \in SecDomTargets
    /\ roll' = u
    /\ walkPc' = "rolled"
    /\ UNCHANGED <<weatherCategory, walkLength, degrees, degreeCount, scanPos,
                   outline, playerVars, pickVars, rhythmVars,
                   chordVars, invVars, voiceVars>>

\* if (... < secDomProb) injected.push(buildSecondaryDominant(chord, ...));
\* injected.push(chord)
InjectPush ==
    /\ \/ walkPc = "rolled"
       \/ /\ walkPc = "inject"
          /\ scanPos <= Len(degrees)
          /\ ScannedChord.degree \notin SecDomTargets
    /\ LET chord == ScannedChord
           taken == /\ walkPc = "rolled"
                    /\ roll * 100
                         < SecDomProbability(Mood(weatherCategory)) * RandDen
       IN outline' = IF taken
                     THEN outline \o <<SecondaryDominantOutline(chord), chord>>
                     ELSE Append(outline, chord)
    /\ scanPos' = scanPos + 1
    /\ roll' = NoRoll
    /\ walkPc' = "inject"
    /\ UNCHANGED <<weatherCategory, walkLength, degrees, degreeCount,
                   playerVars, pickVars, rhythmVars,
                   chordVars, invVars, voiceVars>>

\* the for-of loop is exhausted: finalChords = injected
InjectDone ==
    /\ walkPc = "inject"
    /\ scanPos > Len(degrees)
    /\ walkPc' = "invert"
    /\ UNCHANGED <<weatherCategory, walkLength, degrees, degreeCount,
                   outlineVars, playerVars, pickVars, rhythmVars,
                   chordVars, invVars, voiceVars>>

\* finalChords.map(selectInversion) and return: selectInversion passes the
\* outline fields through ({...chord, bassNote})
ReturnProgression ==
    /\ walkPc = "invert"
    /\ walkPc' = "done"
    /\ UNCHANGED <<weatherCategory, walkLength, degrees, degreeCount,
                   outlineVars, playerVars, pickVars, rhythmVars,
                   chordVars, invVars, voiceVars>>

InitOutline ==
    /\ PlayerIdle
    /\ hasCycleEnd = TRUE
    /\ weatherCategory \in Categories
    /\ walkPc = "length"
    /\ walkLength = 0
    /\ degrees = <<>>
    /\ degreeCount = 0
    /\ OtherIdle

NextOutline ==
    \/ \E u \in Draws : DrawLength(u)
    \/ \E u \in Draws : PickStart(u)
    \/ \E u \in Draws : WalkStepCut(u)
    \/ BuildChords
    \/ \E u \in Draws : InjectDraw(u)
    \/ InjectPush
    \/ InjectDone
    \/ ReturnProgression

SpecOutline == InitOutline /\ [][NextOutline]_vars

----------------------------------------------------------------------------
(* weightedPick on its own, over every row of weights 0..MaxWeight *)

PickArguments ==
    /\ pickWeights \in [1..7 -> 0..MaxWeight]
    /\ pickExclude \in 0..7
    /\ pickResult = NoPick

\* weightedPick(pickWeights, pickExclude) returns
CallWeightedPick(u) ==
    /\ pickResult = NoPick
    /\ pickResult' = WeightedPick(pickWeights, pickExclude, u)
    /\ UNCHANGED <<pickWeights, pickExclude, playerVars, walkVars, rhythmVars,
                   outlineVars, chordVars, invVars, voiceVars>>

InitPick ==
    /\ PlayerIdle
    /\ hasCycleEnd = TRUE
    /\ VoiceIdle
    /\ WalkIdle
    /\ RhythmIdle
    /\ OutlineIdle
    /\ ChordsIdle
    /\ InversionIdle
    /\ PickArguments

NextPick == \E u \in Draws : CallWeightedPick(u)

SpecPick == InitPick /\ [][NextPick]_vars

----------------------------------------------------------------------------
(* getHarmonicRhythm *)

\* Math.round(num / den) for num, den > 0: halves round upwards.
MathRound(num, den) == (2 * num + den) \div (2 * den)

\* Variant of GetHarmonicRhythm: the interpolation is truncated, not rounded.
GetHarmonicRhythmTruncated(p, category) ==
    IF category = "storm" THEN 2
    ELSE IF category = "fog" THEN 8
    ELSE (2 * PressureDen + p * 6) \div PressureDen

\* getHarmonicRhythm(p / PressureDen, category), in measures ('<n>m')
GetHarmonicRhythm(p, category) ==
    IF category = "storm" THEN 2
    ELSE IF category = "fog" THEN 8
    ELSE MathRound(2 * PressureDen + p * 6, PressureDen)

\* const harmonicRhythm = getHarmonicRhythm(pressureNorm, weatherCategory)
ComputeHarmonicRhythm ==
    /\ harmonicRhythm = 0
    /\ harmonicRhythm' = GetHarmonicRhythm(pressureNorm, weatherCategory)
    /\ UNCHANGED <<pressureNorm, playerVars, walkVars, pickVars, outlineVars,
                   chordVars, invVars, voiceVars>>

InitRhythm ==
    /\ PlayerIdle
    /\ hasCycleEnd = TRUE
    /\ VoiceIdle
    /\ weatherCategory \in Categories
    /\ walkPc = "idle"
    /\ walkLength = 0
    /\ degrees = <<>>
    /\ degreeCount = 0
    /\ PickIdle
    /\ OutlineIdle
    /\ ChordsIdle
    /\ InversionIdle
    /\ pressureNorm \in 0..PressureDen
    /\ harmonicRhythm = 0

NextRhythm == ComputeHarmonicRhythm

SpecRhythm == InitRhythm /\ [][NextRhythm]_vars

----------------------------------------------------------------------------
(* scale.js: notes, scales and chords.  A note name such as 'C#4' is the
   record [name |-> "C#", octave |-> 4]. *)

NOTE_NAMES == <<"C", "C#", "D", "D#", "E", "F", "F#", "G", "G#", "A", "A#", "B">>

\* NOTE_NAMES.indexOf(name), 0-based, -1 when absent
NoteIndex(name) ==
    CASE name = "C"  -> 0  [] name = "C#" -> 1  [] name = "D"  -> 2
      [] name = "D#" -> 3  [] name = "E"  -> 4  [] name = "F"  -> 5
      [] name = "F#" -> 6  [] name = "G"  -> 7  [] name = "G#" -> 8
      [] name = "A"  -> 9  [] name = "A#" -> 10 [] name = "B"  -> 11
      [] OTHER -> -1

\* MODES[mode]; the empty tuple stands for undefined
Modes(m) ==
    CASE m = "locrian"       -> <<0, 1, 3, 5, 6, 8, 10>>
      [] m = "aeolian"       -> <<0, 2, 3, 5, 7, 8, 10>>
      [] m = "dorian"        -> <<0, 2, 3, 5, 7, 9, 10>>
      [] m = "mixolydian"    -> <<0, 2, 4, 5, 7, 9, 10>>
      [] m = "ionian"        -> <<0, 2, 4, 5, 7, 9, 11>>
      [] m = "lydian"        -> <<0, 2, 4, 6, 7, 9, 11>>
      [] m = "harmonicMinor" -> <<0, 2, 3, 5, 7, 8, 11>>
      [] m = "melodicMinor"  -> <<0, 2, 3, 5, 7, 9, 11>>
      [] OTHER               -> <<>>

\* The mode arguments considered: the keys of MODES and one unknown name.
ModeArguments ==
    {"locrian", "aeolian", "dorian", "mixolydian", "ionian", "lydian",
     "harmonicMinor", "melodicMinor", "phrygian"}

\* The root arguments considered: every entry of NOTE_NAMES.
RootArguments == {NOTE_NAMES[i] : i \in 1..12}

\* noteToMidi(note): 60 when the name does not match /^([A-G]#?)(\d+)$/
NoteToMidi(note) ==
    LET index == NoteIndex(note.name)
    IN IF index < 0 \/ note.octave < 0 THEN 60
       ELSE index + (note.octave + 1) * 12

\* midiToNote(midi)
MidiToNote(midi) ==
    [name |-> NOTE_NAMES[(midi % 12) + 1], octave |-> (midi \div 12) - 1]

\* getScaleMidi(root, mode, lowOctave, highOctave)
GetScaleMidi(r, m, lowOctave, highOctave) ==
    LET intervals == Modes(m)
        rootIndex == NoteIndex(r)
    IN IF Len(intervals) = 0 THEN <<>>
       ELSE [k \in 1..(7 * (highOctave - lowOctave + 1)) |->
                (lowOctave + ((k - 1) \div 7) + 1) * 12 + rootIndex
                + intervals[((k - 1) % 7) + 1]]

\* getScaleNotes(root, mode, lowOctave, highOctave)
GetScaleNotes(r, m, lowOctave, highOctave) ==
    LET intervals == Modes(m)
        rootIndex == NoteIndex(r)
    IN IF Len(intervals) = 0 \/ rootIndex = -1 THEN <<>>
       ELSE [k \in 1..(7 * (highOctave - lowOctave + 1)) |->
                MidiToNote((lowOctave + ((k - 1) \div 7) + 1) * 12 + rootIndex
                           + intervals[((k - 1) % 7) + 1])]

\* getScaleDegreeNote(root, mode, degreeIndex)
GetScaleDegreeNote(r, m, degreeIndex) ==
    LET intervals == Modes(m)
    IN IF Len(intervals) = 0 THEN r
       ELSE NOTE_NAMES[((NoteIndex(r) + intervals[(degreeIndex % 7) + 1]) % 12) + 1]

\* getDiatonicChord(root, mode, degreeIndex, octave)
GetDiatonicChord(r, m, degreeIndex, octave) ==
    LET allMidi == GetScaleMidi(r, m, octave - 1, octave + 1)
        startIndex == 7 + degreeIndex
        At(offset) ==
            LET idx == startIndex + offset
            IN IF idx >= Len(allMidi) THEN MidiToNote(allMidi[Len(allMidi)])
               ELSE MidiToNote(allMidi[idx + 1])
    IN IF Len(Modes(m)) = 0 THEN <<>>
       ELSE <<At(0), At(2), At(4), At(6)>>

RECURSIVE WithMidi(_)
\* each note paired with the sort key noteToMidi(note)
WithMidi(notes) ==
    IF Len(notes) = 0 THEN <<>>
    ELSE <<[note |-> Head(notes), midi |-> NoteToMidi(Head(notes))]>>
         \o WithMidi(Tail(notes))

\* first placed into the sorted rest, after the entries below it
InsertByMidi(first, rest) ==
    LET Below(e) == e.midi < first.midi
        NotBelow(e) == ~Below(e)
    IN SelectSeq(rest, Below) \o <<first>> \o SelectSeq(rest, NotBelow)

RECURSIVE SortKeyed(_)
\* stable sort of keyed entries by ascending key
SortKeyed(entries) ==
    IF Len(entries) <= 1 THEN entries
    ELSE InsertByMidi(Head(entries), SortKeyed(Tail(entries)))

\* notes.sort((a, b) => noteToMidi(a) - noteToMidi(b)), a stable sort
SortByMidi(notes) ==
    LET sorted == SortKeyed(WithMidi(notes))
    IN [k \in 1..Len(sorted) |-> sorted[k].note]

\* the notes pushed by the octave / semitone double loop, before sorting
SpreadSemitones(rootIdx, semitones, lowOctave, highOctave) ==
    LET n == Len(semitones)
    IN [k \in 1..(n * (highOctave - lowOctave + 1)) |->
           MidiToNote((lowOctave + ((k - 1) \div n) + 1) * 12 + rootIdx
                      + semitones[((k - 1) % n) + 1])]

RECURSIVE Distinct(_)
\* new Set(values), in insertion order
Distinct(values) ==
    IF Len(values) = 0 THEN <<>>
    ELSE LET init == Distinct(SubSeq(values, 1, Len(values) - 1))
             last == values[Len(values)]
         IN IF \E k \in 1..Len(init) : init[k] = last THEN init
            ELSE Append(init, last)

\* getChordTonesForDegree(root, mode, degreeIndex, lowOctave, highOctave)
GetChordTonesForDegree(r, m, degreeIndex, lowOctave, highOctave) ==
    LET intervals == Modes(m)
        ChordDegree(offset) == (degreeIndex + offset) % 7
        chordSemitones ==
            Distinct(<<intervals[ChordDegree(0) + 1], intervals[ChordDegree(2) + 1],
                       intervals[ChordDegree(4) + 1], intervals[ChordDegree(6) + 1]>>)
    IN IF Len(intervals) = 0 THEN <<>>
       ELSE SortByMidi(SpreadSemitones(NoteIndex(r), chordSemitones,
                                       lowOctave, highOctave))

\* buildDominant7Chord(rootName, octave)
BuildDominant7Chord(rootName, octave) ==
    LET rootIdx == NoteIndex(rootName)
        baseM == (octave + 1) * 12 + rootIdx
    IN IF rootIdx = -1 THEN <<>>
       ELSE <<MidiToNote(baseM), MidiToNote(baseM + 4),
              MidiToNote(baseM + 7), MidiToNote(baseM + 10)>>

\* getChordTonesFromSemitones(rootName, semitoneOffsets, lowOctave, highOctave)
GetChordTonesFromSemitones(rootName, semitoneOffsets, lowOctave, highOctave) ==
    LET rootIdx == NoteIndex(rootName)
    IN IF rootIdx = -1 THEN <<>>
       ELSE SortByMidi(SpreadSemitones(rootIdx, semitoneOffsets,
                                       lowOctave, highOctave))

----------------------------------------------------------------------------
(* progression.js: chord objects *)

\* DIATONIC_CHORDS[mode] || DIATONIC_CHORDS.ionian
DiatonicChords(m) ==
    CASE m = "dorian" ->
           <<"min7", "min7", "maj7", "dom7", "min7", "min7b5", "maj7">>
      [] m = "mixolydian" ->
           <<"dom7", "min7", "min7b5", "maj7", "min7", "min7", "maj7">>
      [] m = "aeolian" ->
           <<"min7", "min7b5", "maj7", "min7", "min7", "maj7", "dom7">>
      [] m = "lydian" ->
           <<"maj7", "dom7", "min7", "min7", "min7b5", "maj7", "min7">>
      [] m = "locrian" ->
           <<"min7b5", "maj7", "min7", "min7", "maj7", "dom7", "min7">>
      [] OTHER ->
           <<"maj7", "min7", "min7", "maj7", "dom7", "min7", "min7b5">>

\* buildChord(root, mode, degree, qualities); the fields a diatonic chord
\* lacks are FALSE (isSecondaryDominant) and 0 (resolvesDegree)
BuildChord(r, m, degree, qualities) ==
    LET degreeIndex == degree - 1
        chordRootName == GetScaleDegreeNote(r, m, degreeIndex)
    IN [degree |-> degree,
        degreeIndex |-> degreeIndex,
        quality |-> qualities[degreeIndex + 1],
        notes |-> GetDiatonicChord(r, m, degreeIndex, 4),
        bassNote |-> [name |-> chordRootName, octave |-> 2],
        chordTones |-> GetChordTonesForDegree(r, m, degreeIndex, 3, 5),
        scaleTones |-> GetScaleNotes(r, m, 3, 5),
        chordRootName |-> chordRootName,
        isSecondaryDominant |-> FALSE,
        resolvesDegree |-> 0]

\* Variant of BuildSecondaryDominant: scaleTones is the mixolydian scale of
\* the secondary dominant's own root.
BuildSecondaryDominantOwnScale(targetChord, originalScaleTones) ==
    LET secDomRootName ==
            NOTE_NAMES[((NoteIndex(targetChord.chordRootName) + 7) % 12) + 1]
    IN [degree |-> 0,
        degreeIndex |-> -1,
        quality |-> "dom7",
        notes |-> BuildDominant7Chord(secDomRootName, 4),
        bassNote |-> [name |-> secDomRootName, octave |-> 2],
        chordTones |-> GetChordTonesFromSemitones(secDomRootName,
                                                  <<0, 4, 7, 10>>, 3, 5),
        scaleTones |-> GetScaleNotes(secDomRootName, "mixolydian", 3, 5),
        chordRootName |-> secDomRootName,
        isSecondaryDominant |-> TRUE,
        resolvesDegree |-> targetChord.degree]

\* buildSecondaryDominant(targetChord, originalScaleTones); degree 0 and
\* degreeIndex -1 stand for null
BuildSecondaryDominant(targetChord, originalScaleTones) ==
    LET targetRootIdx == NoteIndex(targetChord.chordRootName)
        secDomRootIdx == (targetRootIdx + 7) % 12
        secDomRootName == NOTE_NAMES[secDomRootIdx + 1]
    IN [degree |-> 0,
        degreeIndex |-> -1,
        quality |-> "dom7",
        notes |-> BuildDominant7Chord(secDomRootName, 4),
        bassNote |-> [name |-> secDomRootName, octave |-> 2],
        chordTones |-> GetChordTonesFromSemitones(secDomRootName,
                                                  <<0, 4, 7, 10>>, 3, 5),
        scaleTones |-> originalScaleTones,
        chordRootName |-> secDomRootName,
        isSecondaryDominant |-> TRUE,
        resolvesDegree |-> targetChord.degree]

\* shiftOctave(noteName, targetOctave)
ShiftOctave(note, targetOctave) == [note EXCEPT !.octave = targetOctave]

Abs(x) == IF x < 0 THEN -x ELSE x

\* Variant of SelectInversion: the inversion also rotates the pad notes.
SelectInversionRotating(chord, previous) ==
    IF previous = NoNote \/ Len(chord.notes) < 3 THEN chord
    ELSE LET third == ShiftOctave(chord.notes[2], 2)
             prevMidi == NoteToMidi(previous)
         IN IF Abs(NoteToMidi(third) - prevMidi)
                 < Abs(NoteToMidi(chord.bassNote) - prevMidi)
            THEN [chord EXCEPT !.bassNote = third,
                               !.notes = Tail(chord.notes) \o <<Head(chord.notes)>>]
            ELSE chord

\* selectInversion(chord, previousBassNote); NoNote stands for null
SelectInversion(chord, previous) ==
    IF previous = NoNote \/ Len(chord.notes) < 3 THEN chord
    ELSE LET candidates == <<chord.bassNote,
                             ShiftOctave(chord.notes[2], 2),
                             ShiftOctave(chord.notes[3], 2)>>
             prevMidi == NoteToMidi(previous)
             Dist(i) == Abs(NoteToMidi(candidates[i]) - prevMidi)
             afterSecond == IF Dist(2) < Dist(1) THEN 2 ELSE 1
             best == IF Dist(3) < Dist(afterSecond) THEN 3 ELSE afterSecond
             bestBass == candidates[best]
         IN IF bestBass = chord.bassNote THEN chord
            ELSE [chord EXCEPT !.bassNote = bestBass]

RECURSIVE InjectAll(_, _, _)
\* the injection loop from chords[k] on; takes[k] is the outcome of
\* SEC_DOM_TARGETS.has(chord.degree) && Math.random() < secDomProb
InjectAll(cs, takes, k) ==
    IF k > Len(cs) THEN <<>>
    ELSE LET chord == cs[k]
             originalScaleTones == cs[1].scaleTones
         IN (IF takes[k]
             THEN <<BuildSecondaryDominant(chord, originalScaleTones), chord>>
             ELSE <<chord>>)
            \o InjectAll(cs, takes, k + 1)

RECURSIVE InvertFromRoot(_, _, _)
\* Variant of InvertFrom: each chord is voiced against the root-position
\* bass of its predecessor.
InvertFromRoot(cs, previous, k) ==
    IF k > Len(cs) THEN <<>>
    ELSE <<SelectInversion(cs[k], previous)>>
         \o InvertFromRoot(cs, cs[k].bassNote, k + 1)

RECURSIVE InvertFrom(_, _, _)
\* finalChords.map(chord => { voiced = selectInversion(chord,
\* previousBassNote); previousBassNote = voiced.bassNote; return voiced })
\* from chords[k] on
InvertFrom(cs, previous, k) ==
    IF k > Len(cs) THEN <<>>
    ELSE LET voiced == SelectInversion(cs[k], previous)
         IN <<voiced>> \o InvertFrom(cs, voiced.bassNote, k + 1)

\* The degree sequences the Markov walk can hand over, cut at MaxBaseLen:
\* no degree is followed by itself.
DegreeSequences ==
    {ds \in [1..MaxBaseLen -> 1..7] :
        \A k \in 1..(MaxBaseLen - 1) : ds[k] # ds[k + 1]}

RECURSIVE MapBuildChord(_, _, _, _)
\* degrees.map(degree => buildChord(root, mode, degree, qualities))
MapBuildChord(r, m, ds, qualities) ==
    IF Len(ds) = 0 THEN <<>>
    ELSE <<BuildChord(r, m, Head(ds), qualities)>>
         \o MapBuildChord(r, m, Tail(ds), qualities)

\* const chords = degrees.map(degree => buildChord(...)), for the degree
\* sequence ds of the walk
BuildChordList(ds) ==
    /\ chords = <<>>
    /\ chords' = MapBuildChord(root, mode, ds, DiatonicChords(mode))
    /\ UNCHANGED <<root, mode, finalChords, playerVars, walkVars, pickVars,
                   rhythmVars, outlineVars, invVars, voiceVars>>

\* the injection loop, where takes[k] is the outcome of the test made for
\* chords[k], then the inversion pass
InjectAndInvert(takes) ==
    /\ chords # <<>>
    /\ finalChords = <<>>
    /\ \A k \in 1..Len(chords) : takes[k] => chords[k].degree \in SecDomTargets
    /\ finalChords' = InvertFrom(InjectAll(chords, takes, 1), NoNote, 1)
    /\ UNCHANGED <<root, mode, chords, playerVars, walkVars, pickVars,
                   rhythmVars, outlineVars, invVars, voiceVars>>

InitChords ==
    /\ PlayerIdle
    /\ hasCycleEnd = TRUE
    /\ VoiceIdle
    /\ WalkIdle
    /\ PickIdle
    /\ RhythmIdle
    /\ OutlineIdle
    /\ InversionIdle
    /\ root \in RootArguments
    /\ mode \in ModeArguments
    /\ chords = <<>>
    /\ finalChords = <<>>

NextChords ==
    \/ chords = <<>> /\ \E ds \in DegreeSequences : BuildChordList(ds)
    \/ \E takes \in [1..MaxBaseLen -> BOOLEAN] : InjectAndInvert(takes)

SpecChords == InitChords /\ [][NextChords]_vars

----------------------------------------------------------------------------
(* selectInversion on its own, for every chord the builders make and every
   previous bass note of octave 2 *)

\* The chord objects of a key: buildChord for each degree, and
\* buildSecondaryDominant for each target degree.
ChordsOfKey(r, m) ==
    LET Diatonic(d) == BuildChord(r, m, d, DiatonicChords(m))
    IN {Diatonic(d) : d \in 1..7}
       \cup {BuildSecondaryDominant(Diatonic(d), GetScaleNotes(r, m, 3, 5)) :
                d \in SecDomTargets}

\* The bass notes the builders and selectInversion produce, and null.
BassArguments == {NoNote} \cup {[name |-> n, octave |-> 2] : n \in RootArguments}

\* selectInversion(invChord, previousBassNote) returns
CallSelectInversion ==
    /\ invResult = NoChord
    /\ invResult' = SelectInversion(invChord, previousBassNote)
    /\ UNCHANGED <<invChord, previousBassNote, chordVars, playerVars,
                   walkVars, pickVars, rhythmVars, outlineVars, voiceVars>>

InitInversion ==
    /\ PlayerIdle
    /\ hasCycleEnd = TRUE
    /\ VoiceIdle
    /\ WalkIdle
    /\ PickIdle
    /\ RhythmIdle
    /\ OutlineIdle
    /\ root \in RootArguments
    /\ mode \in ModeArguments
    /\ chords = <<>>
    /\ finalChords = <<>>
    /\ invChord \in ChordsOfKey(root, mode)
    /\ previousBassNote \in BassArguments
    /\ invResult = NoChord

NextInversion == CallSelectInversion

SpecInversion == InitInversion /\ [][NextInversion]_vars

----------------------------------------------------------------------------
(* voiceLead, called by the engine for every chord change *)

\* Variant of NearestOctave: a tie goes to the later (higher) candidate.
NearestOctaveTieHigh(target, current) ==
    LET afterLow == target - 12
        afterMid == IF Abs(target - current) <= Abs(afterLow - current)
                    THEN target ELSE afterLow
    IN IF Abs(target + 12 - current) <= Abs(afterMid - current)
       THEN target + 12 ELSE afterMid

\* the candidate loop of voiceLead: [target - 12, target, target + 12] are
\* tried in this order, a candidate replaces the best on a strictly smaller
\* distance (the first always does, bestDist starting at Infinity)
NearestOctave(target, current) ==
    LET afterLow == target - 12
        afterMid == IF Abs(target - current) < Abs(afterLow - current)
                    THEN target ELSE afterLow
    IN IF Abs(target + 12 - current) < Abs(afterMid - current)
       THEN target + 12 ELSE afterMid

RECURSIVE RaiseIntoRegister(_)
\* while (midi < 48) midi += 12
RaiseIntoRegister(midi) ==
    IF midi < 48 THEN RaiseIntoRegister(midi + 12) ELSE midi

RECURSIVE LowerIntoRegister(_)
\* while (midi > 84) midi -= 12
LowerIntoRegister(midi) ==
    IF midi > 84 THEN LowerIntoRegister(midi - 12) ELSE midi

\* voiceLead(currentVoicing, targetRootPosition)
VoiceLead(currentVoicing, target) ==
    IF Len(currentVoicing) = 0 THEN target
    ELSE IF Len(target) = 0 THEN target
    ELSE LET Current(i) == IF i <= Len(currentVoicing)
                           THEN NoteToMidi(currentVoicing[i])
                           ELSE NoteToMidi(currentVoicing[1])
             Voiced(i) == NearestOctave(NoteToMidi(target[i]), Current(i))
         IN [i \in 1..Len(target) |->
                MidiToNote(LowerIntoRegister(RaiseIntoRegister(Voiced(i))))]

\* chord.notes of the chords the generator makes: getDiatonicChord(root,
\* mode, degreeIndex, 4) and buildDominant7Chord(name, 4)
PadTargets ==
    {GetDiatonicChord(r, m, d - 1, 4) :
        r \in RootArguments, m \in ModeArguments, d \in 1..7}
    \cup {BuildDominant7Chord(n, 4) : n \in RootArguments}

\* onChordChange(chord, ...): voicedNotes = voiceLead(lastPadVoicing,
\* chord.notes)
OnChordChange(notes) ==
    /\ voicePc = "idle"
    /\ targetRootPosition' = notes
    /\ voicedNotes' = VoiceLead(lastPadVoicing, notes)
    /\ voicePc' = "voiced"
    /\ UNCHANGED <<lastPadVoicing, playerVars, walkVars, pickVars, rhythmVars,
                   outlineVars, chordVars, invVars>>

\* lastPadVoicing = voicedNotes, and the callback returns
StoreVoicing ==
    /\ voicePc = "voiced"
    /\ lastPadVoicing' = voicedNotes
    /\ targetRootPosition' = <<>>
    /\ voicedNotes' = <<>>
    /\ voicePc' = "idle"
    /\ UNCHANGED <<playerVars, walkVars, pickVars, rhythmVars, outlineVars,
                   chordVars, invVars>>

InitVoice ==
    /\ PlayerIdle
    /\ hasCycleEnd = TRUE
    /\ WalkIdle
    /\ PickIdle
    /\ RhythmIdle
    /\ OutlineIdle
    /\ ChordsIdle
    /\ InversionIdle
    /\ VoiceIdle

NextVoice ==
    \/ voicePc = "idle" /\ \E notes \in PadTargets : OnChordChange(notes)
    \/ StoreVoicing

SpecVoice == InitVoice /\ [][NextVoice]_vars

----------------------------------------------------------------------------
(* Properties of the player *)

\* The last operation was an advance from a cursor on the last chord.
AtCycleEnd == lastOp.op = "tick" /\ pre.idx + 1 >= NumChords(pre.cur)

\* C1: after setProgression(p, immediate) with immediate = true or with
\* nothing loaded, p is current, the cursor is 0 and the call has emitted
\* exactly one chord-change event: p's chord 0, index 0, total = |p.chords|.
C1_ImmediateSetEmitsChordZero ==
    (lastOp.op = "setProgression" /\ (lastOp.immediate \/ pre.cur = NoProg))
    => /\ currentProgression = lastOp.p
       /\ chordIndex = 0
       /\ emitted = <<[chord |-> Chord(lastOp.p, 0), index |-> 0,
                       total |-> NumChords(lastOp.p)]>>

C1_Witness ==
    /\ lastOp.op = "setProgression"
    /\ lastOp.immediate
    /\ pre.cur # NoProg
    /\ pre.idx > 0
    /\ currentProgression = lastOp.p
    /\ Len(emitted) = 1

\* C2: setProgression(p, false) with a progression loaded emits nothing and
\* changes only the queue; and as long as a progression q stays queued, each
\* step other than stop, dispose and setProgression either is the advance
\* past the last chord of the current progression - which makes q current
\* and emits q's chord 0 with index 0 - or keeps q queued and emits no chord
\* of q.
C2_QueuedWaitsForCycleEnd ==
    /\ (lastOp.op = "setProgression" /\ ~lastOp.immediate /\ pre.cur # NoProg)
       => /\ emitted = <<>>
          /\ currentProgression = pre.cur
          /\ chordIndex = pre.idx
          /\ chordLoop = pre.loop
          /\ nextProgression = lastOp.p
    /\ (pre.nxt # NoProg /\ lastOp.op \in {"tick", "pause", "resume", "start"})
       => IF AtCycleEnd
          THEN /\ currentProgression = pre.nxt
               /\ emitted = <<[chord |-> Chord(pre.nxt, 0), index |-> 0,
                               total |-> NumChords(pre.nxt)]>>
          ELSE /\ nextProgression = pre.nxt
               /\ currentProgression = pre.cur
               /\ \A k \in 1..Len(emitted) : emitted[k].chord.prog # pre.nxt

C2_Witness ==
    /\ AtCycleEnd
    /\ pre.nxt # NoProg
    /\ NumChords(pre.cur) > 1
    /\ currentProgression = pre.nxt
    /\ Len(emitted) = 1

\* C3: an advance past the last chord takes the queued progression if there
\* is one (emptying the queue, supplier not invoked), otherwise invokes the
\* cycle-end supplier exactly once if it exists and adopts a truthy result;
\* in every case the cursor is 0 and exactly one event, chord 0 of the
\* progression now current, is emitted.
C3_CycleEndHandOff ==
    AtCycleEnd
    => /\ pre.nxt # NoProg
          => /\ currentProgression = pre.nxt
             /\ nextProgression = NoProg
             /\ supplierCalls = 0
       /\ (pre.nxt = NoProg /\ hasCycleEnd)
          => /\ supplierCalls = 1
             /\ lastOp.p # NoProg => currentProgression = lastOp.p
       /\ (pre.nxt = NoProg /\ ~hasCycleEnd) => supplierCalls = 0
       /\ chordIndex = 0
       /\ emitted = <<[chord |-> Chord(currentProgression, 0), index |-> 0,
                       total |-> NumChords(currentProgression)]>>

C3_Witness ==
    /\ AtCycleEnd
    /\ pre.nxt = NoProg
    /\ hasCycleEnd
    /\ lastOp.p # NoProg
    /\ currentProgression = lastOp.p
    /\ supplierCalls = 1

\* C4: at a cycle end with nothing queued and no supplier, or a supplier
\* returning a falsy value, the current progression is kept, the cursor wraps
\* to 0 and the same chord-0 object is emitted again with index 0; with two
\* chords the advance from cursor 0 gives index 1.
C4_FalsySupplierLoops ==
    /\ (AtCycleEnd /\ pre.nxt = NoProg /\ (~hasCycleEnd \/ lastOp.p = NoProg))
       => /\ currentProgression = pre.cur
          /\ nextProgression = NoProg
          /\ chordIndex = 0
          /\ emitted = <<[chord |-> Chord(pre.cur, 0), index |-> 0,
                          total |-> NumChords(pre.cur)]>>
    /\ (lastOp.op = "tick" /\ NumChords(pre.cur) = 2 /\ pre.idx = 0)
       => Position.index = 1

C4_Witness ==
    /\ AtCycleEnd
    /\ pre.nxt = NoProg
    /\ hasCycleEnd
    /\ lastOp.p = NoProg
    /\ NumChords(pre.cur) = 2
    /\ pre.idx = 1
    /\ currentProgression = pre.cur
    /\ chordIndex = 0

\* C5: resume() directly after pause() leaves position and currentChord as
\* they were and emits nothing; the advance that follows emits the event the
\* advance from the paused state gives (next chord, or the cycle-end outcome).
C5_PauseResumePreserves ==
    /\ sincePause.phase = "resumed"
       => /\ currentProgression = sincePause.cur
          /\ nextProgression = sincePause.nxt
          /\ Position = [index |-> sincePause.idx,
                         total |-> IF sincePause.cur = NoProg THEN 0
                                   ELSE NumChords(sincePause.cur)]
          /\ CurrentChord = Chord(sincePause.cur, sincePause.idx)
          /\ emitted = <<>>
    /\ sincePause.phase = "advanced"
       => emitted =
            IF sincePause.idx + 1 < NumChords(sincePause.cur)
            THEN <<Event(sincePause.cur, sincePause.idx + 1)>>
            ELSE IF sincePause.nxt # NoProg
                 THEN <<Event(sincePause.nxt, 0)>>
                 ELSE IF hasCycleEnd /\ lastOp.p # NoProg
                      THEN <<Event(lastOp.p, 0)>>
                      ELSE <<Event(sincePause.cur, 0)>>

C5_Witness ==
    /\ sincePause.phase = "advanced"
    /\ sincePause.idx = 1
    /\ NumChords(sincePause.cur) = 3
    /\ chordIndex = 2
    /\ Len(emitted) = 1

\* C6: after stop() position is {index: 0, total: 0}, currentChord is null,
\* no progression is current or queued and no advance trigger is left.
C6_StopClears ==
    lastOp.op = "stop"
    => /\ Position = [index |-> 0, total |-> 0]
       /\ CurrentChord = Chord(NoProg, 0)
       /\ currentProgression = NoProg
       /\ nextProgression = NoProg
       /\ ~chordLoop.active
       /\ undisposed = 0

C6_Witness ==
    /\ lastOp.op = "stop"
    /\ pre.cur # NoProg
    /\ pre.nxt # NoProg
    /\ pre.idx > 0
    /\ pre.loop.active
    /\ currentProgression = NoProg

\* C7: resume() and start() with no progression loaded change nothing: no
\* trigger is created, no event is emitted, the player fields stay as they
\* were.
C7_ResumeWithoutProgressionIsNoOp ==
    (lastOp.op \in {"resume", "start"} /\ pre.cur = NoProg)
    => /\ chordLoop = pre.loop
       /\ ~chordLoop.active
       /\ undisposed = 0
       /\ emitted = <<>>
       /\ currentProgression = NoProg
       /\ nextProgression = pre.nxt
       /\ chordIndex = pre.idx

C7_Witness ==
    /\ lastOp.op = "resume"
    /\ pre.cur = NoProg
    /\ ~chordLoop.active

\* C8 (as claimed): whenever a trigger is active, the time until the next
\* advance is max(1, round(h/2)) if the chord now playing is a secondary
\* dominant and h otherwise - whether the chord was started by an advance,
\* by setProgression or is the current chord at resume().
C8_HalvedForEverySecondaryDominant ==
    (chordLoop.active /\ lastOp.op \in {"tick", "setProgression", "resume"})
    => chordLoop.nextIn =
          IF IsSecondaryDominant(currentProgression, chordIndex)
          THEN Max(1, (HarmonicRhythm(currentProgression) + 1) \div 2)
          ELSE HarmonicRhythm(currentProgression)

\* C9: an advance that does not reach the end of the progression moves the
\* cursor by exactly 1 and emits exactly one event: the chord at the new
\* cursor, index = new cursor, total = chord count.
C9_AdvanceStepsByOne ==
    (lastOp.op = "tick" /\ pre.idx + 1 < NumChords(pre.cur))
    => /\ chordIndex = pre.idx + 1
       /\ currentProgression = pre.cur
       /\ emitted = <<[chord |-> Chord(pre.cur, pre.idx + 1),
                       index |-> pre.idx + 1,
                       total |-> NumChords(pre.cur)]>>

C9_Witness ==
    /\ lastOp.op = "tick"
    /\ NumChords(pre.cur) = 3
    /\ pre.idx = 0
    /\ chordIndex = 1
    /\ Len(emitted) = 1

----------------------------------------------------------------------------
(* Properties of the player's life cycle *)

\* C22: at most one Tone.Loop exists that is not disposed, and it is the one
\* the player holds: a rebuild stops and disposes the loop it replaces
\* before it creates the new one.
C22_AtMostOneTrigger ==
    /\ undisposed <= 1
    /\ chordLoop.active <=> undisposed = 1

C22_Witness ==
    /\ lastOp.op = "setProgression"
    /\ pre.loop.active
    /\ chordLoop.active
    /\ undisposed = 1

\* C23 (as claimed): from pause() until resume() is called no trigger is
\* active and no chord-change event is emitted, whatever else is called in
\* between.
C23_OnlyResumeLeavesPaused ==
    pauseTrack.paused => (~chordLoop.active /\ emitted = <<>>)

\* C23, amended: from pause() until resume(), start() or a setProgression
\* call that loads at once (immediate, or nothing loaded) no trigger is
\* active and no chord-change event is emitted.
C23_PausedUntilRestartOrLoad ==
    (pauseTrack.paused /\ ~pauseTrack.restarted /\ ~pauseTrack.loaded)
    => (~chordLoop.active /\ emitted = <<>>)

C23_Witness ==
    /\ pauseTrack.paused
    /\ ~pauseTrack.restarted
    /\ ~pauseTrack.loaded
    /\ lastOp.op = "setProgression"
    /\ nextProgression = lastOp.p
    /\ pre.idx > 0

\* C24 (as claimed): after pause() or stop() the loop that was active is
\* stopped and disposed, and as long as no call creates a new loop the
\* cursor does not change and no chord-change event is emitted.
C24_CursorFrozenAfterCancel ==
    /\ lastOp.op \in {"pause", "stop"} => (~chordLoop.active /\ undisposed = 0)
    /\ (lastOp.op # "create" /\ ~pre.loop.active /\ ~chordLoop.active)
       => (chordIndex = pre.idx /\ emitted = <<>>)

\* C24, amended: after pause() or stop() the loop that was active is stopped
\* and disposed, and as long as no call creates a new loop no advance fires
\* and no chord-change event is emitted; the cursor changes in that time
\* only when stop() or dispose() resets it to 0.
C24_NoAdvanceAfterCancel ==
    /\ lastOp.op \in {"pause", "stop"} => (~chordLoop.active /\ undisposed = 0)
    /\ (lastOp.op # "create" /\ ~pre.loop.active /\ ~chordLoop.active)
       => /\ lastOp.op # "tick"
          /\ emitted = <<>>
          /\ \/ chordIndex = pre.idx
             \/ lastOp.op \in {"stop", "dispose"} /\ chordIndex = 0

C24_Witness ==
    /\ lastOp.op = "stop"
    /\ ~pre.loop.active
    /\ pre.idx > 0
    /\ chordIndex = 0

\* C25 (as claimed): once dispose() has been called no operation loads a
\* progression, creates a trigger or emits a chord-change event.
C25_DisposeIsTerminal ==
    disposed => /\ currentProgression = NoProg
                /\ nextProgression = NoProg
                /\ ~chordLoop.active
                /\ emitted = <<>>

\* C26: while a progression is loaded the cursor is an index into its
\* chords, and every chord-change event carries the chord of the current
\* progression at the cursor, with total equal to its number of chords.
C26_CursorWithinProgression ==
    /\ currentProgression # NoProg
       => (0 <= chordIndex /\ chordIndex < NumChords(currentProgression))
    /\ \A k \in 1..Len(emitted) :
          /\ emitted[k].chord.prog = currentProgression
          /\ emitted[k].chord.pos = chordIndex
          /\ emitted[k].index = chordIndex
          /\ emitted[k].index < NumChords(currentProgression)
          /\ emitted[k].total = NumChords(currentProgression)

C26_Witness ==
    /\ lastOp.op = "tick"
    /\ pre.cur # currentProgression
    /\ pre.idx = 2
    /\ NumChords(currentProgression) = 1
    /\ Len(emitted) = 1

\* C27: after setProgression(p, true) the queue is empty, and the
\* progression that was queued when it was called is from then on neither
\* current nor queued (unless the same object is handed to the player again).
C27_ImmediateDiscardsQueue ==
    /\ (lastOp.op = "setProgression" /\ lastOp.immediate)
       => nextProgression = NoProg
    /\ dropped # NoProg => dropped \notin {currentProgression, nextProgression}

C27_Witness ==
    /\ dropped # NoProg
    /\ lastOp.op = "tick"
    /\ pre.idx + 1 = NumChords(pre.cur)
    /\ chordIndex = 0

\* C29: while a progression q is queued the current progression has
\* NumChords - cursor >= 1 advances left; each advance either is the last of
\* them and makes q current with its chord 0 emitted, or leaves q queued and
\* one advance fewer to go; and with the loop firing, q becomes current
\* unless pause, stop, dispose or setProgression is called first.
C29_QueuedBecomesCurrent ==
    /\ [](nextProgression # NoProg
          => (currentProgression # NoProg
              /\ NumChords(currentProgression) - chordIndex >= 1))
    /\ [][(lastOp'.op = "tick" /\ nextProgression # NoProg)
          => IF NumChords(currentProgression) - chordIndex = 1
             THEN /\ currentProgression' = nextProgression
                  /\ chordIndex' = 0
                  /\ emitted' = <<Event(nextProgression, 0)>>
             ELSE /\ nextProgression' = nextProgression
                  /\ currentProgression' = currentProgression
                  /\ NumChords(currentProgression') - chordIndex'
                       = NumChords(currentProgression) - chordIndex - 1]_vars
    /\ \A q \in ProgIds :
          (nextProgression = q /\ chordLoop.active /\ lastOp.op = "tick")
          ~> \/ /\ lastOp.op = "tick"
                /\ currentProgression = q
                /\ chordIndex = 0
                /\ emitted = <<Event(q, 0)>>
             \/ lastOp.op \in {"pause", "stop", "dispose", "setProgression"}

C29_Witness ==
    /\ lastOp.op = "tick"
    /\ pre.nxt # NoProg
    /\ pre.idx = 2
    /\ currentProgression = pre.nxt
    /\ chordIndex = 0

\* C30: the interval of an active loop is the harmonicRhythm of the current
\* progression, or its half while the current chord is a secondary dominant;
\* after an advance that swapped the progression it is the value derived
\* from the new progression.
C30_IntervalOfCurrentProgression ==
    chordLoop.active
    => /\ \/ chordLoop.interval = HarmonicRhythm(currentProgression)
          \/ /\ IsSecondaryDominant(currentProgression, chordIndex)
             /\ chordLoop.interval
                  = HalvedRhythm(HarmonicRhythm(currentProgression))
       /\ chordLoop.nextIn = chordLoop.interval

C30_Witness ==
    /\ lastOp.op = "tick"
    /\ pre.cur # currentProgression
    /\ chordLoop.active
    /\ HarmonicRhythm(pre.cur) # HarmonicRhythm(currentProgression)
    /\ chordLoop.interval # pre.loop.interval


----------------------------------------------------------------------------
(* Properties of the generator *)

\* C10: no two consecutive degrees of the base Markov walk are equal, for
\* every category and every value of the random draws.
C10_NoConsecutiveRepeat ==
    \A k \in 1..(Len(degrees) - 1) : degrees[k] # degrees[k + 1]

C10_Witness ==
    /\ walkPc = "done"
    /\ Mood(weatherCategory) = "tense"
    /\ degreeCount = 10
    /\ Len(degrees) >= 2
    /\ degrees[Len(degrees)] = 1

\* C11: once drawn, the base length lies within the [min, max] configured
\* for the mood (tense 6..10, suspended and sparse 3..5, every other mood
\* and the default 4..6), and the walk ends with exactly that many degrees.
C11_BaseLengthWithinRange ==
    LET lo == CASE weatherCategory = "storm" -> 6
                [] weatherCategory \in {"fog", "snow"} -> 3
                [] OTHER -> 4
        hi == CASE weatherCategory = "storm" -> 10
                [] weatherCategory \in {"fog", "snow"} -> 5
                [] OTHER -> 6
    IN /\ walkPc \in {"start", "walk", "done"}
            => (lo <= walkLength /\ walkLength <= hi)
       /\ walkPc \in {"start", "walk", "done"} => degreeCount <= walkLength
       /\ walkPc = "done" => degreeCount = walkLength

C11_Witness ==
    /\ walkPc = "done"
    /\ weatherCategory = "hail"
    /\ walkLength = 6
    /\ degreeCount = 6

\* C12: in the chord list of generateProgression every secondary dominant
\* is immediately followed by a diatonic chord whose degree is in
\* {2, 4, 5, 6} and is the secondary dominant's resolvesDegree; hence never
\* by another secondary dominant.
C12_SecondaryDominantResolves ==
    \A k \in 1..Len(outline) :
        outline[k].isSecondaryDominant
        => /\ k < Len(outline)
           /\ ~outline[k + 1].isSecondaryDominant
           /\ outline[k + 1].degree \in {2, 4, 5, 6}
           /\ outline[k + 1].degree = outline[k].resolvesDegree

C12_Witness ==
    /\ walkPc = "done"
    /\ Len(outline) = 4
    /\ outline[1].isSecondaryDominant
    /\ outline[3].isSecondaryDominant
    /\ outline[2].degree = 5
    /\ outline[4].degree = 2

\* C13: every secondary dominant of a generated progression carries the
\* scaleTones of the chord it resolves to, which are the scale notes of the
\* progression's root and mode; all chords of the progression carry the
\* same scaleTones.
C13_ScaleTonesOfTheKey ==
    /\ LET scaleNotes == GetScaleNotes(root, mode, 3, 5)
       IN \A k \in 1..Len(finalChords) : finalChords[k].scaleTones = scaleNotes
    /\ \A k \in 1..(Len(finalChords) - 1) :
          finalChords[k].isSecondaryDominant
          => finalChords[k].scaleTones = finalChords[k + 1].scaleTones

C13_Witness ==
    /\ root = "D"
    /\ mode = "dorian"
    /\ Len(finalChords) = 3
    /\ finalChords[2].isSecondaryDominant
    /\ finalChords[2].chordRootName = "D"
    /\ finalChords[2].scaleTones[3] = [name |-> "F", octave |-> 3]

\* C14: weightedPick returns a degree in 1..7 other than the excluded key;
\* it has positive weight whenever some non-excluded key has, and otherwise
\* it is any degree but the excluded one.
C14_PickIsValid ==
    pickResult # NoPick
    => /\ pickResult \in 1..7
       /\ pickResult # pickExclude
       /\ (\E d \in 1..7 : d # pickExclude /\ pickWeights[d] > 0)
            => pickWeights[pickResult] > 0

C14_Witness ==
    /\ pickResult = 7
    /\ pickExclude = 3
    /\ \A d \in 1..7 : pickWeights[d] = 0

\* C15: the chord returned by selectInversion equals its argument in every
\* field except possibly bassNote, and with a null previousBassNote it is
\* the argument itself, root in the bass.
C15_OnlyBassNoteChanges ==
    invResult # NoChord
    => /\ DOMAIN invResult = DOMAIN invChord
       /\ \A f \in DOMAIN invChord \ {"bassNote"} : invResult[f] = invChord[f]
       /\ previousBassNote = NoNote
            => /\ invResult = invChord
               /\ invResult.bassNote
                    = [name |-> invChord.chordRootName, octave |-> 2]

C15_Witness ==
    /\ invChord.degree = 0
    /\ previousBassNote # NoNote
    /\ invResult # NoChord
    /\ invResult.bassNote = [name |-> invChord.notes[3].name, octave |-> 2]

\* C16: after the inversion pass the first chord has its root in the bass;
\* every later chord that has a 3rd and a 5th has in the bass the first,
\* in the order root, 3rd, 5th (each in octave 2), of the candidates
\* nearest in semitones to the bass chosen for the chord just before it.
C16_BassFollowsChosenBass ==
    LET RootBass(c) == [name |-> c.chordRootName, octave |-> 2]
        Candidates(c) == <<RootBass(c),
                           [name |-> c.notes[2].name, octave |-> 2],
                           [name |-> c.notes[3].name, octave |-> 2]>>
        Gap(a, b) == Abs(NoteToMidi(a) - NoteToMidi(b))
    IN /\ Len(finalChords) > 0 => finalChords[1].bassNote = RootBass(finalChords[1])
       /\ \A k \in 2..Len(finalChords) :
             LET c == finalChords[k]
                 before == finalChords[k - 1].bassNote
             IN IF Len(c.notes) < 3 THEN c.bassNote = RootBass(c)
                ELSE \E i \in 1..3 :
                        /\ c.bassNote = Candidates(c)[i]
                        /\ \A j \in 1..3 :
                              Gap(Candidates(c)[i], before)
                                <= Gap(Candidates(c)[j], before)
                        /\ \A j \in 1..(i - 1) :
                              Gap(Candidates(c)[i], before)
                                < Gap(Candidates(c)[j], before)

C16_Witness ==
    /\ Len(finalChords) = 3
    /\ finalChords[2].bassNote.name # finalChords[2].chordRootName
    /\ finalChords[3].bassNote.name # finalChords[3].chordRootName
    /\ finalChords[3].bassNote
         # SelectInversion(
               [finalChords[3] EXCEPT
                   !.bassNote = [name |-> finalChords[3].chordRootName,
                                 octave |-> 2]],
               [name |-> finalChords[2].chordRootName, octave |-> 2]).bassNote

\* C17: every pitch voiceLead returns lies in the register MIDI 48..84,
\* whatever the current voicing (none on the first chord of a session) and
\* the target chord.
C17_WithinRegister ==
    voicePc = "voiced"
    => \A i \in 1..Len(voicedNotes) :
          /\ 48 <= NoteToMidi(voicedNotes[i])
          /\ NoteToMidi(voicedNotes[i]) <= 84

\* C18 as stated: for each voice the returned pitch is the candidate among
\* target - 12, target, target + 12 nearest to the current pitch of that
\* voice, the lower one on a tie, and has the pitch class of the target.
C18_NearestCandidate ==
    (voicePc = "voiced" /\ Len(lastPadVoicing) > 0)
    => \A i \in 1..Len(voicedNotes) :
          LET t == NoteToMidi(targetRootPosition[i])
              c == NoteToMidi(lastPadVoicing[IF i <= Len(lastPadVoicing)
                                            THEN i ELSE 1])
              r == NoteToMidi(voicedNotes[i])
          IN /\ r \in {t - 12, t, t + 12}
             /\ \A y \in {t - 12, t, t + 12} :
                   \/ Abs(r - c) < Abs(y - c)
                   \/ Abs(r - c) = Abs(y - c) /\ r <= y
             /\ voicedNotes[i].name = targetRootPosition[i].name

\* C18, amended: with a current voicing, the returned pitch is that nearest
\* candidate (the lower one on a tie) moved by whole octaves into 48..84
\* when it lies outside; without one the target is returned as it is.  The
\* returned pitch always has the pitch class of the target.
C18_NearestCandidateThenClamped ==
    voicePc = "voiced"
    => /\ Len(voicedNotes) = Len(targetRootPosition)
       /\ \A i \in 1..Len(voicedNotes) :
             voicedNotes[i].name = targetRootPosition[i].name
       /\ Len(lastPadVoicing) = 0 => voicedNotes = targetRootPosition
       /\ Len(lastPadVoicing) > 0
            => \A i \in 1..Len(voicedNotes) :
                  LET t == NoteToMidi(targetRootPosition[i])
                      c == NoteToMidi(lastPadVoicing[IF i <= Len(lastPadVoicing)
                                                    THEN i ELSE 1])
                      r == NoteToMidi(voicedNotes[i])
                  IN \E x \in {t - 12, t, t + 12} :
                        /\ \A y \in {t - 12, t, t + 12} :
                              \/ Abs(x - c) < Abs(y - c)
                              \/ Abs(x - c) = Abs(y - c) /\ x <= y
                        /\ (r - x) % 12 = 0
                        /\ x \in 48..84 => r = x
                        /\ x > 84 => r \in 73..84
                        /\ x < 48 => r \in 48..59

C18_Witness ==
    /\ voicePc = "voiced"
    /\ Len(lastPadVoicing) = 4
    /\ Len(targetRootPosition) = 4
    /\ lastPadVoicing[4] = [name |-> "C", octave |-> 6]
    /\ targetRootPosition[4] = [name |-> "C#", octave |-> 5]
    /\ voicedNotes[4] = [name |-> "C#", octave |-> 5]

\* C19: the harmonic rhythm is 2 measures for storm and 8 for fog whatever
\* the pressure; otherwise it is 2 + 6 * pressureNorm rounded to the nearest
\* integer, lies in 2..8 and does not decrease when the pressure rises.
C19_HarmonicRhythm ==
    harmonicRhythm # 0
    => /\ weatherCategory = "storm" => harmonicRhythm = 2
       /\ weatherCategory = "fog" => harmonicRhythm = 8
       /\ weatherCategory \notin {"storm", "fog"}
            => /\ 2 * PressureDen * harmonicRhythm - PressureDen
                    <= 2 * (2 * PressureDen + 6 * pressureNorm)
               /\ 2 * (2 * PressureDen + 6 * pressureNorm)
                    < 2 * PressureDen * harmonicRhythm + PressureDen
               /\ harmonicRhythm \in 2..8
               /\ \A q \in 0..pressureNorm :
                    GetHarmonicRhythm(q, weatherCategory) <= harmonicRhythm

C19_Witness ==
    /\ weatherCategory = "rain"
    /\ pressureNorm < PressureDen
    /\ harmonicRhythm = 8

\* C20: with a category outside the category-to-mood table every step of
\* generateProgression is a step of the 'calm' tables: the base length is
\* drawn from 4..6, the first degree from the calm starting weights, each
\* further degree from the calm transition row of its predecessor, and a
\* secondary dominant is inserted exactly when the draw is below 0.08.
C20_UnknownCategoryUsesCalm ==
    [][weatherCategory = "hail"
       => /\ walkPc = "length"
               => \E u \in Draws : walkLength' = 4 + ((u * 3) \div RandDen)
          /\ walkPc = "start"
               => \E u \in Draws :
                     degrees' = <<WeightedPick(StartingWeights("calm"), 0, u)>>
          /\ (walkPc = "walk" /\ degreeCount' # degreeCount)
               => LET last == degrees[Len(degrees)]
                  IN \E u \in Draws :
                        degrees' = Append(degrees,
                            WeightedPick(TransitionWeights("calm")[last],
                                         last, u))
          /\ (walkPc = "walk" /\ walkPc' # "walk") => walkPc' = "inject"
          /\ walkPc = "rolled"
               => (Len(outline') = Len(outline) + 2 <=> roll * 100 < 8 * RandDen)
      ]_vars

C20_Witness ==
    /\ weatherCategory = "hail"
    /\ walkPc = "done"
    /\ walkLength = 5
    /\ Len(outline) = 3
    /\ outline[2].isSecondaryDominant

\* The fields of a chord that C21 compares.
Playable(c) == [quality |-> c.quality, notes |-> c.notes,
                chordTones |-> c.chordTones, scaleTones |-> c.scaleTones]

\* The degree sequence behind a list of diatonic chords.
DegreesOf(cs) == [k \in 1..Len(cs) |-> cs[k].degree]

\* C21 (as claimed): generateProgression with a mode name outside MODES
\* returns the chords it returns for ionian with the same root, the same
\* degree walk and the same injection draws: same qualities, 4-note
\* voicings, chord tones and scale tones, chord by chord.
C21_UnknownModeSameAsIonian ==
    (Modes(mode) = <<>> /\ finalChords # <<>>) =>
        \E takes \in [1..MaxBaseLen -> BOOLEAN] :
            /\ \A k \in 1..Len(chords) :
                  takes[k] => chords[k].degree \in SecDomTargets
            /\ LET ionian == InvertFrom(
                                InjectAll(MapBuildChord(root, "ionian",
                                                        DegreesOf(chords),
                                                        DiatonicChords("ionian")),
                                          takes, 1),
                                NoNote, 1)
               IN /\ Len(ionian) = Len(finalChords)
                  /\ \A k \in 1..Len(finalChords) :
                        /\ Len(finalChords[k].notes) = 4
                        /\ Playable(finalChords[k]) = Playable(ionian[k])

\* The modes DIATONIC_CHORDS has a row for.
TableModes == {"ionian", "dorian", "mixolydian", "aeolian", "lydian", "locrian"}

\* The interval structure a quality label names, in semitones above the root.
QualityIntervals(quality) ==
    CASE quality = "maj7"   -> {0, 4, 7, 11}
      [] quality = "min7"   -> {0, 3, 7, 10}
      [] quality = "dom7"   -> {0, 4, 7, 10}
      [] quality = "min7b5" -> {0, 3, 6, 10}
      [] OTHER              -> {}

\* The semitones of the notes of a chord above its first note.
NoteIntervals(notes) ==
    {NoteToMidi(notes[k]) - NoteToMidi(notes[1]) : k \in 1..Len(notes)}

\* C28 (as claimed): for the six modes of the quality table, every chord
\* buildChord makes carries the quality label that names the interval
\* structure of its notes.
C28_QualityMatchesNotes ==
    mode \in TableModes
    => \A k \in 1..Len(chords) :
          NoteIntervals(chords[k].notes) = QualityIntervals(chords[k].quality)

====
